---- MODULE Spec2Model ----
(***************************************************************************)
(* generate-put-ssm.py: create a SecureString SSM parameter unless it      *)
(* already exists, tagged from template-configuration.json.                *)
(*                                                                         *)
(* A Python str is a sequence of atoms: one-character strings for the      *)
(* characters the placeholder regex looks at ("$", letters, digits, "_")   *)
(* and opaque chunks of other text.  An optional value (None or a value)   *)
(* is a sequence of length 0 or 1.                                         *)
(***************************************************************************)
EXTENDS Integers, Sequences, FiniteSets, TLC

VARIABLES pc, args, value, fs, environ, tags, calls, stdout, stderr, exit_status

vars == <<pc, args, value, fs, environ, tags, calls, stdout, stderr, exit_status>>

None == <<>>
Some(x) == <<x>>

(***************************************************************************)
(* Bounds of the model.                                                    *)
(***************************************************************************)
MaxBits == 12
MaxTags == 2
MaxLen == 6

(***************************************************************************)
(* Text: the regex of line 113 and str.replace of line 119.                *)
(***************************************************************************)
NameStart == {"A", "B", "_"}
NameChar == NameStart \cup {"1"}

\* Last index of the maximal run of [A-Z0-9_] characters that starts at i.
RECURSIVE RunEnd(_, _)
RunEnd(s, i) ==
    IF i + 1 <= Len(s) /\ s[i + 1] \in NameChar THEN RunEnd(s, i + 1) ELSE i

\* \$([A-Z_][A-Z0-9_]*)\$ tried at position i: the index of the closing "$",
\* or 0 when the pattern does not match there.  The name is greedy, and a
\* shorter name would be followed by a name character, never by "$".
MatchEnd(s, i) ==
    IF /\ s[i] = "$"
       /\ i + 1 <= Len(s)
       /\ s[i + 1] \in NameStart
       /\ RunEnd(s, i + 1) + 1 <= Len(s)
       /\ s[RunEnd(s, i + 1) + 1] = "$"
    THEN RunEnd(s, i + 1) + 1
    ELSE 0

\* re.findall scanning from i: the captured names of the non-overlapping
\* matches, left to right.
RECURSIVE FindAllFrom(_, _)
FindAllFrom(s, i) ==
    IF i > Len(s) THEN <<>>
    ELSE IF MatchEnd(s, i) > 0
         THEN <<SubSeq(s, i + 1, MatchEnd(s, i) - 1)>> \o FindAllFrom(s, MatchEnd(s, i) + 1)
         ELSE FindAllFrom(s, i + 1)

findall(s) == FindAllFrom(s, 1)

\* str.replace(old, new) scanning from i, old non-empty: every non-overlapping
\* occurrence of old, left to right.
RECURSIVE ReplaceFrom(_, _, _, _)
ReplaceFrom(s, i, old, new) ==
    IF i > Len(s) THEN <<>>
    ELSE IF i + Len(old) - 1 <= Len(s) /\ SubSeq(s, i, i + Len(old) - 1) = old
         THEN new \o ReplaceFrom(s, i + Len(old), old, new)
         ELSE <<s[i]>> \o ReplaceFrom(s, i + 1, old, new)

replace(s, old, new) == ReplaceFrom(s, 1, old, new)

\* f"${placeholder}$"
Token(name) == <<"$">> \o name \o <<"$">>

\* os.getenv(name): None when the variable is not set.
getenv(env, name) == IF name \in DOMAIN env THEN Some(env[name]) ELSE None

\* One iteration of the loop over placeholders (lines 114-121).
SubstituteOne(env, v, name) ==
    IF getenv(env, name) # None
    THEN replace(v, Token(name), getenv(env, name)[1])
    ELSE v

\* The loop of lines 114-121 over placeholders[k..], on the current value.
RECURSIVE SubstituteLoop(_, _, _, _)
SubstituteLoop(env, v, placeholders, k) ==
    IF k > Len(placeholders) THEN v
    ELSE SubstituteLoop(env, SubstituteOne(env, v, placeholders[k]), placeholders, k + 1)

\* Lines 113-121: the names are found once, in the value as configured.
Substitute(env, v) == SubstituteLoop(env, v, findall(v), 1)

\* The warnings of line 121, one per placeholder found whose variable is unset.
RECURSIVE MissingWarnings(_, _, _)
MissingWarnings(env, placeholders, k) ==
    IF k > Len(placeholders) THEN <<>>
    ELSE (IF getenv(env, placeholders[k]) = None
          THEN <<[msg |-> "EnvNotFound", arg |-> placeholders[k]]>>
          ELSE <<>>) \o MissingWarnings(env, placeholders, k + 1)

(***************************************************************************)
(* Inputs: the command line as argparse sees it (lines 159-170).           *)
(***************************************************************************)
ParamNames == {<<"/", "a">>, <<"/">>, <<"a">>, <<"a", "/">>, <<>>}
BitsInputs == {b \in (0 - MaxBits)..MaxBits : b % 4 = 0}
ValueInputs == {<<>>, <<"v">>}
ProfileInputs == {<<"p">>}

\* What parse_args leaves when the command line does not parse.
Unparsed ==
    [ok |-> FALSE, param_name |-> <<>>, generate |-> None, value |-> None,
     dryrun |-> FALSE, profile |-> None]

ArgsInputs ==
    {Unparsed} \cup
    [ok : {TRUE},
     param_name : ParamNames,
     generate : {None} \cup {Some(b) : b \in BitsInputs},
     value : {None} \cup {Some(v) : v \in ValueInputs},
     dryrun : BOOLEAN,
     profile : {None} \cup {Some(p) : p \in ProfileInputs}]

startswith(s, c) == Len(s) >= 1 /\ s[1] = c

(***************************************************************************)
(* Output and termination.                                                 *)
(***************************************************************************)
Msg(m) == [msg |-> m, arg |-> <<>>]
MsgArg(m, a) == [msg |-> m, arg |-> a]

(***************************************************************************)
(* generate_key (lines 48-50): secrets.token_hex(key_len // 8).            *)
(***************************************************************************)
HexBytes == {<<"0", "0">>, <<"f", "f">>}

\* The hex strings token_hex(n) can return, n >= 0: two characters a byte.
RECURSIVE token_hex(_)
token_hex(n) ==
    IF n <= 0 THEN {<<>>}
    ELSE {b \o r : b \in HexBytes, r \in token_hex(n - 1)}

\* bits -> bytes, line 50.
KeyBytes(key_len) == key_len \div 8

\* token_hex of a negative count raises ValueError.
generate_key_raises(key_len) == KeyBytes(key_len) < 0

generate_key(key_len) == token_hex(KeyBytes(key_len))

(***************************************************************************)
(* template-configuration.json as get_tags meets it (lines 80-90).         *)
(* A file is absent, cannot be opened or read, is not JSON, or holds a     *)
(* JSON document.  A JSON value is a string or something else.             *)
(***************************************************************************)
StrV(s) == [t |-> "str", s |-> s]
OtherV == [t |-> "other", s |-> <<>>]

NoDoc == [type |-> "none", hasTags |-> FALSE, tagsIsObject |-> FALSE, Tags |-> <<>>]
File(k) == [kind |-> k, doc |-> NoDoc]
Absent == File("absent")
JsonFile(d) == [kind |-> "json", doc |-> d]

\* A top-level object whose "Tags" is the object items, in document order.
TagsDoc(items) ==
    [type |-> "object", hasTags |-> TRUE, tagsIsObject |-> TRUE, Tags |-> items]

\* Before get_tags has looked.
NotRead == [cwd |-> File("unread"), parent |-> File("unread")]

\* Lines 81-85: the current directory first, then its parent.
config_file(f) ==
    IF f.cwd.kind # "absent" THEN Some(f.cwd)
    ELSE IF f.parent.kind # "absent" THEN Some(f.parent)
    ELSE None

\* How the try block of lines 87-128 ends: "loop" when it reaches the loop
\* over config['Tags'].items(), else the warning of the branch or handler.
LoadOutcome(f) ==
    IF config_file(f) = None THEN "NotFound"
    ELSE LET file == config_file(f)[1] IN
         CASE file.kind = "unreadable" -> "ErrorReading"
           [] file.kind = "malformed" -> "JSONDecodeError"
           [] OTHER ->
              CASE file.doc.type = "number" -> "ErrorReading"
                [] file.doc.type = "array" ->
                     IF file.doc.hasTags THEN "ErrorReading" ELSE "NoTags"
                [] OTHER ->
                     IF ~file.doc.hasTags THEN "NoTags"
                     ELSE IF ~file.doc.tagsIsObject THEN "ErrorReading"
                     ELSE "loop"

\* Lines 111-121 for one value: only a str is scanned.
TagValue(env, v) == IF v.t = "str" THEN StrV(Substitute(env, v.s)) ELSE v

TagWarnings(env, v) ==
    IF v.t = "str" THEN MissingWarnings(env, findall(v.s), 1) ELSE <<>>

\* Lines 107-123 over items[k..]: the tags appended.
RECURSIVE LoopTags(_, _, _)
LoopTags(env, items, k) ==
    IF k > Len(items) THEN <<>>
    ELSE <<[Key |-> items[k][1], Value |-> TagValue(env, items[k][2])]>>
         \o LoopTags(env, items, k + 1)

RECURSIVE LoopWarnings(_, _, _)
LoopWarnings(env, items, k) ==
    IF k > Len(items) THEN <<>>
    ELSE TagWarnings(env, items[k][2]) \o LoopWarnings(env, items, k + 1)

\* next((tag for tag in tags if tag['Key'] == key), None): its index, or 0.
FirstWithKey(ts, key) ==
    IF \E i \in 1..Len(ts) : ts[i].Key = key
    THEN CHOOSE i \in 1..Len(ts) :
            /\ ts[i].Key = key
            /\ \A j \in 1..(i - 1) : ts[j].Key # key
    ELSE 0

\* Lines 138-142 and 145-149: overwrite the first tag with the key, or append.
EnforceAppendAlways(ts, key, found, appended) ==
    Append(ts, [Key |-> key, Value |-> appended])

Enforce(ts, key, found, appended) ==
    IF FirstWithKey(ts, key) # 0
    THEN [ts EXCEPT ![FirstWithKey(ts, key)].Value = found]
    ELSE Append(ts, [Key |-> key, Value |-> appended])

CodeBuild == StrV(<<"CodeBuild">>)
BuildScript == StrV(<<"Build Script">>)
BuildScriptArgv0 == StrV(<<"Build Script ", "argv0">>)

\* Tags the try block leaves in the list (lines 78-135).
LoadedTags(f, env) ==
    IF LoadOutcome(f) = "loop"
    THEN LoopTags(env, config_file(f)[1].doc.Tags, 1)
    ELSE <<>>

\* The handlers of lines 130-135, by what the try block raised.
CaughtOnlyNotFound(outcome) == outcome = "NotFound"

Caught(outcome) == outcome \in {"NotFound", "JSONDecodeError", "ErrorReading"}

\* Whether get_tags lets an exception out.
get_tags_raises(f) ==
    LoadOutcome(f) \notin {"loop", "NoTags"} /\ ~Caught(LoadOutcome(f))

LoadedWarnings(f, env) ==
    IF LoadOutcome(f) = "loop"
    THEN LoopWarnings(env, config_file(f)[1].doc.Tags, 1)
    ELSE <<Msg(LoadOutcome(f))>>

\* get_tags (lines 76-156): the list returned.
get_tags(f, env) ==
    Enforce(Enforce(LoadedTags(f, env), "Provisioner", CodeBuild, CodeBuild),
            "DeployedUsing", BuildScript, BuildScriptArgv0)

\* Lines 152-154.
TagLines(ts) == [i \in 1..Len(ts) |-> MsgArg("Tag", <<ts[i].Key>>)]

(***************************************************************************)
(* Configuration files and environments the main flow is run against.      *)
(***************************************************************************)
TagKeys == {"Provisioner", "DeployedUsing", "Environment"}
TagValueInputs == {OtherV, StrV(<<"$", "A", "$">>), StrV(<<"v">>)}

\* The items of a JSON object: json.load keeps one value a key.
TagItems ==
    {it \in UNION {[1..n -> TagKeys \X TagValueInputs] : n \in 0..MaxTags} :
        \A i, j \in 1..Len(it) : it[i][1] = it[j][1] => i = j}

Docs ==
    {TagsDoc(it) : it \in TagItems} \cup
    {[type |-> "object", hasTags |-> FALSE, tagsIsObject |-> FALSE, Tags |-> <<>>],
     [type |-> "object", hasTags |-> TRUE, tagsIsObject |-> FALSE, Tags |-> <<>>],
     [type |-> "array", hasTags |-> FALSE, tagsIsObject |-> FALSE, Tags |-> <<>>],
     [type |-> "array", hasTags |-> TRUE, tagsIsObject |-> FALSE, Tags |-> <<>>],
     [type |-> "number", hasTags |-> FALSE, tagsIsObject |-> FALSE, Tags |-> <<>>]}

Files == {Absent, File("unreadable"), File("malformed")} \cup {JsonFile(d) : d \in Docs}

ProvisionerDoc == TagsDoc(<<<<"Provisioner", StrV(<<"v">>)>>>>)

FileSystems ==
    {[cwd |-> f, parent |-> Absent] : f \in Files} \cup
    {[cwd |-> Absent, parent |-> f] : f \in Files} \cup
    {[cwd |-> f, parent |-> JsonFile(ProvisionerDoc)] :
        f \in {File("unreadable"), File("malformed")}}

Environs ==
    {<<>>,
     (<<"A">> :> <<"x">>),
     (<<"A">> :> <<"$", "B", "$">>) @@ (<<"B">> :> <<"y">>)}

(***************************************************************************)
(* The remote store: what get_parameter and put_parameter answer.          *)
(***************************************************************************)
ClientErrorCodes == {"ParameterNotFound", "AccessDeniedException", "ThrottlingException"}
GetResponses == {"ok", "EndpointConnectionError"} \cup ClientErrorCodes
PutResponses == {"ok", "ParameterAlreadyExists", "EndpointConnectionError"}

\* A call made on the client with the answer it got.  get_parameter is
\* called with Name alone: its other fields are blank.
Call(op, name, v, ts, resp) ==
    [op |-> op, Name |-> name, Value |-> v, Type |-> "SecureString", Tags |-> ts,
     Overwrite |-> FALSE, resp |-> resp]

\* put_parameter without the existence branch of line 58: creates although
\* the parameter exists.
PutDecisionOverwrites(resp, dryrun) ==
    IF resp = "ok" \/ resp = "ParameterNotFound"
    THEN (IF dryrun THEN "dryrun" ELSE "put")
    ELSE "raise"

\* put_parameter without the dryrun test of line 62.
PutDecisionNoDryrun(resp, dryrun) ==
    IF resp = "ok" THEN "skip"
    ELSE IF resp = "ParameterNotFound" THEN "put"
    ELSE "raise"

\* put_parameter without the error code test of line 60: every ClientError
\* counts as "not found".
PutDecisionAnyClientError(resp, dryrun) ==
    IF resp = "ok" THEN "skip"
    ELSE IF resp \in ClientErrorCodes
         THEN (IF dryrun THEN "dryrun" ELSE "put")
         ELSE "raise"

\* Lines 56-74: what put_parameter does with the answer of get_parameter.
PutDecision(resp, dryrun) ==
    IF resp = "ok" THEN "skip"
    ELSE IF resp \in ClientErrorCodes /\ resp = "ParameterNotFound"
         THEN (IF dryrun THEN "dryrun" ELSE "put")
         ELSE "raise"

\* Line 173 written with truthiness instead of "is not None".
ConflictTruthy(a) ==
    /\ a.generate # None /\ a.generate[1] # 0
    /\ a.value # None /\ a.value[1] # <<>>

\* Line 173.
Conflict(a) == a.generate # None /\ a.value # None

\* Line 178 written with "in" instead of startswith.
ValidNameContains(name) == \E i \in 1..Len(name) : name[i] = "/"

\* Line 178.
ValidName(name) == startswith(name, "/")

(***************************************************************************)
(* main (lines 158-206), one action a step.                                *)
(***************************************************************************)
Init ==
    /\ pc = "parse_args"
    /\ args \in ArgsInputs
    /\ value = <<>>
    /\ fs = NotRead
    /\ environ = <<>>
    /\ tags = <<>>
    /\ calls = <<>>
    /\ stdout = <<>>
    /\ stderr = <<>>
    /\ exit_status = None

\* sys.exit(code), or the interpreter ending on an uncaught exception (1)
\* or after main returns (0).
Exit(code) ==
    /\ pc' = "exited"
    /\ exit_status' = Some(code)

\* Lines 166-170.
ParseArgs ==
    /\ pc = "parse_args"
    /\ IF args.ok
       THEN /\ pc' = "check_exclusive"
            /\ UNCHANGED <<stderr, exit_status>>
       ELSE /\ stderr' = Append(stderr, Msg("Usage"))
            /\ Exit(1)
    /\ UNCHANGED <<args, value, fs, environ, tags, calls, stdout>>

\* Lines 172-175.
CheckExclusive ==
    /\ pc = "check_exclusive"
    /\ IF Conflict(args)
       THEN /\ stderr' = Append(stderr, Msg("ErrorExclusive"))
            /\ Exit(1)
       ELSE /\ pc' = "check_name"
            /\ UNCHANGED <<stderr, exit_status>>
    /\ UNCHANGED <<args, value, fs, environ, tags, calls, stdout>>

\* Lines 177-182.
CheckName ==
    /\ pc = "check_name"
    /\ IF ~ValidName(args.param_name)
       THEN /\ stderr' = Append(stderr, Msg("ErrorParamName"))
            /\ Exit(1)
            /\ UNCHANGED stdout
       ELSE /\ stdout' = Append(stdout, MsgArg("ParameterName", args.param_name))
            /\ pc' = "resolve_value"
            /\ UNCHANGED <<stderr, exit_status>>
    /\ UNCHANGED <<args, value, fs, environ, tags, calls>>

\* Lines 184-196.  An exception of generate_key is not caught.
ResolveValue ==
    /\ pc = "resolve_value"
    /\ IF args.value # None
       THEN /\ value' = args.value[1]
            /\ stdout' = Append(stdout, Msg("UsingProvidedValue"))
            /\ pc' = "get_tags"
            /\ UNCHANGED <<stderr, exit_status>>
       ELSE IF args.generate # None
       THEN IF generate_key_raises(args.generate[1])
            THEN /\ stderr' = Append(stderr, Msg("TracebackValueError"))
                 /\ Exit(1)
                 /\ UNCHANGED <<value, stdout>>
            ELSE /\ \E k \in generate_key(args.generate[1]) : value' = k
                 /\ stdout' = Append(stdout,
                        IF args.dryrun THEN Msg("DryrunGeneratedKey") ELSE Msg("GeneratedKey"))
                 /\ pc' = "get_tags"
                 /\ UNCHANGED <<stderr, exit_status>>
       ELSE /\ value' = <<"BLANK">>
            /\ stdout' = Append(stdout, Msg("NoValueProvided"))
            /\ pc' = "get_tags"
            /\ UNCHANGED <<stderr, exit_status>>
    /\ UNCHANGED <<args, fs, environ, tags, calls>>

\* Line 198 with get_tags (lines 76-156), on the files and the environment
\* it finds.
GetTagsOver(fss, envs) ==
    /\ pc = "get_tags"
    /\ \E f \in fss, env \in envs :
        /\ fs' = f
        /\ environ' = env
        /\ IF get_tags_raises(f)
           THEN /\ stderr' = Append(stderr, Msg("Traceback"))
                /\ Exit(1)
                /\ UNCHANGED <<tags, stdout>>
           ELSE /\ tags' = get_tags(f, env)
                /\ stderr' = stderr \o LoadedWarnings(f, env)
                /\ stdout' = stdout \o <<Msg("TagsToBeUsed")>> \o TagLines(get_tags(f, env))
                /\ pc' = "session"
                /\ UNCHANGED exit_status
    /\ UNCHANGED <<args, value, calls>>

GetTags == GetTagsOver(FileSystems, Environs)

\* Lines 204-206.
Fail ==
    /\ stderr' = Append(stderr, Msg("Error"))
    /\ Exit(1)

\* Lines 201-202: the session or the client may fail (no such profile, no
\* region).
CreateClient ==
    /\ pc = "session"
    /\ \E ok \in BOOLEAN :
        IF ok
        THEN /\ pc' = "get_parameter"
             /\ UNCHANGED <<stderr, exit_status>>
        ELSE Fail
    /\ UNCHANGED <<args, value, fs, environ, tags, calls, stdout>>

\* Line 203 with put_parameter up to the create call (lines 54-65, 73-74).
GetParameter ==
    /\ pc = "get_parameter"
    /\ \E resp \in GetResponses :
        LET d == PutDecision(resp, args.dryrun)
            checking == Append(stdout, Msg("Checking"))
        IN /\ calls' = Append(calls, Call("get_parameter", args.param_name, <<>>, <<>>, resp))
           /\ CASE d = "skip" ->
                     /\ stdout' = Append(checking, Msg("AlreadyExists"))
                     /\ Exit(0)
                     /\ UNCHANGED stderr
                [] d = "dryrun" ->
                     /\ stdout' = checking \o <<Msg("DoesNotExist"), Msg("DryrunWouldStore")>>
                     /\ Exit(0)
                     /\ UNCHANGED stderr
                [] d = "put" ->
                     /\ stdout' = checking \o <<Msg("DoesNotExist"), Msg("Storing")>>
                     /\ pc' = "put_parameter"
                     /\ UNCHANGED <<stderr, exit_status>>
                [] OTHER ->
                     /\ stdout' = checking
                     /\ Fail
    /\ UNCHANGED <<args, value, fs, environ, tags>>

\* Lines 66-72, and 204-206 when the call fails.
PutParameter ==
    /\ pc = "put_parameter"
    /\ \E resp \in PutResponses :
        /\ calls' = Append(calls, Call("put_parameter", args.param_name, value, tags, resp))
        /\ IF resp = "ok"
           THEN /\ Exit(0)
                /\ UNCHANGED stderr
           ELSE Fail
    /\ UNCHANGED <<args, value, fs, environ, tags, stdout>>

Next ==
    \/ ParseArgs
    \/ CheckExclusive
    \/ CheckName
    \/ ResolveValue
    \/ GetTags
    \/ CreateClient
    \/ GetParameter
    \/ PutParameter

Spec == Init /\ [][Next]_vars

(***************************************************************************)
(* The placeholder substitution of get_tags on its own: one run that has   *)
(* reached line 198, against a configuration of one tag whose value is any *)
(* text of at most MaxLen characters.                                      *)
(***************************************************************************)
SubChars == {"$", "A", "B", "-"}

PrefixStage == <<"$", "A", "$", "-", "$", "B", "$">>

SubValues == UNION {[1..n -> SubChars] : n \in 0..MaxLen} \cup {PrefixStage}

SubFileSystems ==
    {[cwd |-> JsonFile(TagsDoc(<<<<"Deploy", StrV(v)>>>>)), parent |-> Absent] :
        v \in SubValues}

SubEnvirons ==
    {<<>>,
     (<<"A">> :> <<"x">>),
     (<<"B">> :> <<"y">>),
     (<<"A">> :> <<"x">>) @@ (<<"B">> :> <<"y">>),
     (<<"A">> :> <<"$", "B", "$">>),
     (<<"A">> :> <<"$", "B", "$">>) @@ (<<"B">> :> <<"y">>),
     (<<"A">> :> <<"x">>) @@ (<<"B">> :> <<"$", "A", "$">>),
     (<<"A">> :> <<"$", "A", "$", "x">>)}

\* The run "<prog> /a" just before line 198.
SubInit ==
    /\ pc = "get_tags"
    /\ args = [ok |-> TRUE, param_name |-> <<"/", "a">>, generate |-> None,
               value |-> None, dryrun |-> FALSE, profile |-> None]
    /\ value = <<"BLANK">>
    /\ fs = NotRead
    /\ environ = <<>>
    /\ tags = <<>>
    /\ calls = <<>>
    /\ stdout = <<MsgArg("ParameterName", <<"/", "a">>), Msg("NoValueProvided")>>
    /\ stderr = <<>>
    /\ exit_status = None

GetTagsSub == GetTagsOver(SubFileSystems, SubEnvirons)

SubNext == GetTagsSub

SpecSub == SubInit /\ [][SubNext]_vars

(***************************************************************************)
(* Properties.                                                             *)
(***************************************************************************)
Gets == {i \in 1..Len(calls) : calls[i].op = "get_parameter"}
Puts == {i \in 1..Len(calls) : calls[i].op = "put_parameter"}
Printed(out, m) == \E i \in 1..Len(out) : out[i] = m
Count(ts, key) == Cardinality({i \in 1..Len(ts) : ts[i].Key = key})
TagsRead == fs # NotRead

\* C1: a create call (put_parameter) is issued only after the existence
\* check (get_parameter) of the run has answered ParameterNotFound, and when
\* the existence check succeeded no create call is issued, dryrun or not.
C1_CreateOnlyAfterNotFound ==
    /\ \A i \in Puts : \E j \in Gets : j < i /\ calls[j].resp = "ParameterNotFound"
    /\ (\E j \in Gets : calls[j].resp = "ok") => Puts = {}

C1_Witness == Puts # {}

\* C2: when the existence check answers ParameterNotFound and dryrun is set,
\* no create call is issued (nor pending) and the "[DRYRUN] Would store
\* parameter" message has been printed.
C2_DryrunNoCreate ==
    (args.dryrun /\ \E j \in Gets : calls[j].resp = "ParameterNotFound")
    => /\ Puts = {}
       /\ pc # "put_parameter"
       /\ Printed(stdout, Msg("DryrunWouldStore"))

C2_Witness == args.dryrun /\ \E j \in Gets : calls[j].resp = "ParameterNotFound"

\* C3: when the existence check fails with anything but ParameterNotFound,
\* the run has ended with exit status 1 and "Error: ..." on standard error,
\* no create call was issued, and get_parameter was called once.
C3_OtherFailurePropagates ==
    (\E j \in Gets : calls[j].resp \notin {"ok", "ParameterNotFound"})
    => /\ pc = "exited"
       /\ exit_status = Some(1)
       /\ Printed(stderr, Msg("Error"))
       /\ Puts = {}
       /\ Cardinality(Gets) = 1

C3_Witness == \E j \in Gets : calls[j].resp = "ThrottlingException"

\* C4: with both --generate and --value given, the run never gets past the
\* mutual-exclusion check: no store call is ever made, and when it has ended
\* it has ended with exit status 1 and the conflict reported.
C4_ConflictFailsBeforeStore ==
    (args.generate # None /\ args.value # None)
    => /\ calls = <<>>
       /\ pc \in {"parse_args", "check_exclusive", "exited"}
       /\ pc = "exited" => /\ exit_status = Some(1)
                           /\ Printed(stderr, Msg("ErrorExclusive"))

C4_Witness == args.generate # None /\ args.value # None /\ pc = "exited"

\* C5: with a parameter name that does not start with "/", the run never gets
\* past the name check: no store call is ever made, and when it has ended it
\* has ended with exit status 1 and an error reported, which is the name error
\* unless --generate and --value were both given (that check comes first).
C5_BadNameFailsBeforeStore ==
    (args.ok /\ ~startswith(args.param_name, "/"))
    => /\ calls = <<>>
       /\ pc \in {"parse_args", "check_exclusive", "check_name", "exited"}
       /\ pc = "exited" =>
            /\ exit_status = Some(1)
            /\ IF args.generate # None /\ args.value # None
               THEN Printed(stderr, Msg("ErrorExclusive"))
               ELSE Printed(stderr, Msg("ErrorParamName"))

C5_Witness ==
    /\ args.ok /\ ~startswith(args.param_name, "/")
    /\ pc = "exited" /\ Printed(stderr, Msg("ErrorParamName"))

\* C6: the list get_tags returns holds exactly one tag with key "Provisioner"
\* and exactly one with key "DeployedUsing", whatever the configuration.
C6_ProvenanceTagsOnce ==
    TagsRead => /\ Count(tags, "Provisioner") = 1
                /\ Count(tags, "DeployedUsing") = 1

ConfigDefines(key) ==
    /\ config_file(fs) # None
    /\ \E i \in 1..Len(config_file(fs)[1].doc.Tags) :
          config_file(fs)[1].doc.Tags[i][1] = key

C6_Witness ==
    TagsRead /\ ConfigDefines("Provisioner") /\ ConfigDefines("DeployedUsing")

\* C7: when template-configuration.json is missing (in the current and the
\* parent directory) or is not valid JSON, get_tags returns normally with
\* exactly the two provenance tags, and the run goes on to the store client:
\* if it has ended, it ended at or after the creation of the client.
ConfigMissing == fs.cwd.kind = "absent" /\ fs.parent.kind = "absent"
ConfigMalformed ==
    \/ fs.cwd.kind = "malformed"
    \/ fs.cwd.kind = "absent" /\ fs.parent.kind = "malformed"

C7_BadConfigNeverAborts ==
    (TagsRead /\ (ConfigMissing \/ ConfigMalformed))
    => /\ tags = <<[Key |-> "Provisioner", Value |-> StrV(<<"CodeBuild">>)],
                   [Key |-> "DeployedUsing", Value |-> StrV(<<"Build Script ", "argv0">>)]>>
       /\ ~Printed(stderr, Msg("Traceback"))
       /\ pc \in {"session", "get_parameter", "put_parameter", "exited"}
       /\ pc = "exited" => (calls # <<>> \/ Printed(stderr, Msg("Error")))

C7_Witness == TagsRead /\ ConfigMalformed /\ pc = "get_parameter"

\* The substitution as C8 and C10 describe it: one pass over the value as
\* configured, each placeholder replaced by its variable's value when set and
\* kept when not, the text put in never looked at again.
RECURSIVE SinglePassFrom(_, _, _)
SinglePassFrom(env, s, i) ==
    IF i > Len(s) THEN <<>>
    ELSE IF MatchEnd(s, i) > 0
         THEN LET name == SubSeq(s, i + 1, MatchEnd(s, i) - 1)
              IN (IF name \in DOMAIN env THEN env[name] ELSE SubSeq(s, i, MatchEnd(s, i)))
                 \o SinglePassFrom(env, s, MatchEnd(s, i) + 1)
         ELSE <<s[i]>> \o SinglePassFrom(env, s, i + 1)

\* The (key, value) items get_tags looped over.
ConfigItems ==
    IF TagsRead /\ LoadOutcome(fs) = "loop" THEN config_file(fs)[1].doc.Tags ELSE <<>>

\* C8: for every string tag value, each $NAME$ placeholder whose NAME is set
\* is replaced by the variable's value, each placeholder whose NAME is not set
\* is left as it is with a warning naming the variable, and nothing else
\* changes.  (The values of the two provenance keys are overwritten afterwards
\* and are not looked at here.)
C8_PlaceholdersSubstituted ==
    \A k \in 1..Len(ConfigItems) :
        (ConfigItems[k][2].t = "str" /\ ConfigItems[k][1] \notin {"Provisioner", "DeployedUsing"}) =>
            /\ tags[k].Value = StrV(SinglePassFrom(environ, ConfigItems[k][2].s, 1))
            /\ \A n \in 1..Len(findall(ConfigItems[k][2].s)) :
                 findall(ConfigItems[k][2].s)[n] \notin DOMAIN environ
                 => Printed(stderr, MsgArg("EnvNotFound", findall(ConfigItems[k][2].s)[n]))

\* Whether str.replace(old, ...) on s, scanning from i, replaces an occurrence
\* of old that holds a character marked in m (m[j]: s[j] was put in by an
\* earlier substitution).
RECURSIVE HitsIntroduced(_, _, _, _)
HitsIntroduced(s, m, i, old) ==
    IF i > Len(s) THEN FALSE
    ELSE IF i + Len(old) - 1 <= Len(s) /\ SubSeq(s, i, i + Len(old) - 1) = old
         THEN \/ \E j \in i..(i + Len(old) - 1) : m[j]
              \/ HitsIntroduced(s, m, i + Len(old), old)
         ELSE HitsIntroduced(s, m, i + 1, old)

\* The marks of replace(s, old, new): what replaces an occurrence is marked.
RECURSIVE MarksAfter(_, _, _, _, _)
MarksAfter(s, m, i, old, new) ==
    IF i > Len(s) THEN <<>>
    ELSE IF i + Len(old) - 1 <= Len(s) /\ SubSeq(s, i, i + Len(old) - 1) = old
         THEN [j \in 1..Len(new) |-> TRUE] \o MarksAfter(s, m, i + Len(old), old, new)
         ELSE <<m[i]>> \o MarksAfter(s, m, i + 1, old, new)

\* Whether the loop of lines 114-121 over placeholders[k..] replaces text
\* that an earlier iteration put in.
RECURSIVE LoopHitsIntroduced(_, _, _, _, _)
LoopHitsIntroduced(env, s, m, placeholders, k) ==
    IF k > Len(placeholders) THEN FALSE
    ELSE IF placeholders[k] \in DOMAIN env
         THEN \/ HitsIntroduced(s, m, 1, Token(placeholders[k]))
              \/ LoopHitsIntroduced(env,
                    replace(s, Token(placeholders[k]), env[placeholders[k]]),
                    MarksAfter(s, m, 1, Token(placeholders[k]), env[placeholders[k]]),
                    placeholders, k + 1)
         ELSE LoopHitsIntroduced(env, s, m, placeholders, k + 1)

\* C10: the substitution never replaces text that the substitution of a
\* placeholder has put into the value.
C10_IntroducedTextNotSubstituted ==
    \A k \in 1..Len(ConfigItems) :
        ConfigItems[k][2].t = "str" =>
            ~LoopHitsIntroduced(environ, ConfigItems[k][2].s,
                                [j \in 1..Len(ConfigItems[k][2].s) |-> FALSE],
                                findall(ConfigItems[k][2].s), 1)

\* C9: with --generate BITS where BITS is not a positive multiple of 8, the
\* run does not get past the value resolver: it ends there with a non-zero
\* exit status, no value produced.
C9_InvalidBitsRejected ==
    (/\ args.ok /\ args.value = None /\ startswith(args.param_name, "/")
     /\ args.generate # None
     /\ ~(args.generate[1] > 0 /\ args.generate[1] % 8 = 0)
     /\ pc \notin {"parse_args", "check_exclusive", "check_name", "resolve_value"})
    => /\ pc = "exited"
       /\ exit_status = Some(1)
       /\ ~TagsRead

====
